---------------------------- MODULE Spec2Model ----------------------------
(***************************************************************************)
(* Model of the vector-to-Ruida converter: main.py (argument resolution,   *)
(* conversion to SVG, call of svg2rd.svg_to_rd, reporting, cleanup) and    *)
(* src/svg2rd.py (hex_to_rgb, parse_transform, extract_paths_recursive,    *)
(* extract_paths, svg_to_rd).                                              *)
(*                                                                         *)
(* Text is modelled as a tuple of one-character strings.  Numbers that the *)
(* program holds as floats are modelled exactly, as integers over a stated *)
(* denominator.                                                            *)
(***************************************************************************)
EXTENDS Integers, Sequences, FiniteSets, TLC

VARIABLES
    pc,             \* position of main() / svg_to_rd()
    args,           \* argparse namespace of main.py
    input_file,     \* the file named on the command line
    temp_file,      \* "<input>_temp.svg" on disk
    svg_input,      \* main(): value returned by convert_to_svg
    temp_svg_path,  \* main(): local variable read by the finally block
    argv,           \* the options as given on the command line
    root,           \* svg_to_rd(): tree.getroot(), as the name of the file parsed ("" before)
    paths_by_color, \* svg_to_rd(): insertion-ordered dict, key -> list of paths
    sorted_colors,  \* svg_to_rd(): keys sorted by sum of rgb
    idx,            \* svg_to_rd(): position of the layer loop in sorted_colors
    rd,             \* svg_to_rd(): layers added to the Ruida job
    rd_file,        \* the output file on disk: "absent", "empty" (zero bytes) or "rd"
                    \* (the job rd, written by rd.write)
    stdout,         \* messages printed so far
    exc,            \* exception that ended the run ("" when none)
    run,            \* number of the invocation (1 or 2)
    prev            \* outcome of the first invocation, kept for comparison

vars == <<pc, argv, args, input_file, temp_file, svg_input, temp_svg_path, root,
          paths_by_color, sorted_colors, idx, rd, rd_file, stdout, exc, run, prev>>

----------------------------------------------------------------------------
(* Text helpers (Python str methods used by hex_to_rgb).                   *)

UpperChars == <<"A","B","C","D","E","F","G","H","I","J","K","L","M",
                "N","O","P","Q","R","S","T","U","V","W","X","Y","Z">>
LowerChars == <<"a","b","c","d","e","f","g","h","i","j","k","l","m",
                "n","o","p","q","r","s","t","u","v","w","x","y","z">>

\* str.lower() on one character
LowerChar(c) ==
    IF \E i \in 1..26 : UpperChars[i] = c
    THEN LowerChars[CHOOSE i \in 1..26 : UpperChars[i] = c]
    ELSE c

\* str.lower()
Lower(s) == [i \in 1..Len(s) |-> LowerChar(s[i])]

Whitespace == {" "}

RECURSIVE LStripSet(_, _)
\* str.lstrip(chars)
LStripSet(s, chars) ==
    IF s # <<>> /\ Head(s) \in chars THEN LStripSet(Tail(s), chars) ELSE s

RECURSIVE RStripSet(_, _)
\* str.rstrip(chars)
RStripSet(s, chars) ==
    IF s # <<>> /\ s[Len(s)] \in chars
    THEN RStripSet(SubSeq(s, 1, Len(s) - 1), chars) ELSE s

\* str.strip()
Strip(s) == RStripSet(LStripSet(s, Whitespace), Whitespace)

HexDigitChars == <<"0","1","2","3","4","5","6","7","8","9","a","b","c","d","e","f">>

IsHexDigit(c) == \E i \in 1..16 : HexDigitChars[i] = LowerChar(c)

HexVal(c) == (CHOOSE i \in 1..16 : HexDigitChars[i] = LowerChar(c)) - 1

\* int(pair, 16) on a two-character string: int() strips surrounding
\* whitespace and takes one optional sign; anything else is a ValueError.
Int16(p) ==
    LET a == p[1]
        b == p[2]
    IN  IF IsHexDigit(a) /\ IsHexDigit(b) THEN [ok |-> TRUE, v |-> 16 * HexVal(a) + HexVal(b)]
        ELSE IF a \in Whitespace /\ IsHexDigit(b) THEN [ok |-> TRUE, v |-> HexVal(b)]
        ELSE IF IsHexDigit(a) /\ b \in Whitespace THEN [ok |-> TRUE, v |-> HexVal(a)]
        ELSE IF a = "+" /\ IsHexDigit(b) THEN [ok |-> TRUE, v |-> HexVal(b)]
        ELSE IF a = "-" /\ IsHexDigit(b) THEN [ok |-> TRUE, v |-> 0 - HexVal(b)]
        ELSE [ok |-> FALSE, v |-> 0]

----------------------------------------------------------------------------
(* hex_to_rgb                                                              *)

ColorNames ==
    << <<"b","l","a","c","k">>, <<"w","h","i","t","e">>, <<"r","e","d">>,
       <<"g","r","e","e","n">>, <<"b","l","u","e">>, <<"y","e","l","l","o","w">>,
       <<"c","y","a","n">>, <<"m","a","g","e","n","t","a">>,
       <<"s","i","l","v","e","r">>, <<"g","r","a","y">>, <<"m","a","r","o","o","n">>,
       <<"o","l","i","v","e">>, <<"p","u","r","p","l","e">>, <<"t","e","a","l">>,
       <<"n","a","v","y">>, <<"n","o","n","e">> >>

ColorHexes ==
    << <<"#","0","0","0","0","0","0">>, <<"#","f","f","f","f","f","f">>,
       <<"#","f","f","0","0","0","0">>, <<"#","0","0","8","0","0","0">>,
       <<"#","0","0","0","0","f","f">>, <<"#","f","f","f","f","0","0">>,
       <<"#","0","0","f","f","f","f">>, <<"#","f","f","0","0","f","f">>,
       <<"#","c","0","c","0","c","0">>, <<"#","8","0","8","0","8","0">>,
       <<"#","8","0","0","0","0","0">>, <<"#","8","0","8","0","0","0">>,
       <<"#","8","0","0","0","8","0">>, <<"#","0","0","8","0","8","0">>,
       <<"#","0","0","0","0","8","0">>, <<"#","f","f","f","f","f","f">> >>

InColorNames(s) == \E i \in 1..Len(ColorNames) : ColorNames[i] = s

\* COLOR_NAME_TO_HEX[s]
COLOR_NAME_TO_HEX(s) == ColorHexes[CHOOSE i \in 1..Len(ColorNames) : ColorNames[i] = s]

White == <<255, 255, 255>>

\* "".join([c*2 for c in hex_color])
DoubleChars(s) == [i \in 1..(2 * Len(s)) |-> s[(i + 1) \div 2]]

\* A variant of ParsePairs without the except clause: the ValueError escapes.
ParsePairsNoExcept(h) ==
    LET r == Int16(SubSeq(h, 1, 2))
        g == Int16(SubSeq(h, 3, 4))
        b == Int16(SubSeq(h, 5, 6))
    IN  IF r.ok /\ g.ok /\ b.ok
        THEN [exc |-> "", rgb |-> <<r.v, g.v, b.v>>]
        ELSE [exc |-> "ValueError", rgb |-> White]

\* tuple(int(hex_color[i:i+2], 16) for i in (0, 2, 4)) inside try/except ValueError
ParsePairs(h) ==
    LET r == Int16(SubSeq(h, 1, 2))
        g == Int16(SubSeq(h, 3, 4))
        b == Int16(SubSeq(h, 5, 6))
    IN  IF r.ok /\ g.ok /\ b.ok
        THEN [exc |-> "", rgb |-> <<r.v, g.v, b.v>>]
        ELSE [exc |-> "", rgb |-> White]

\* hex_to_rgb(color_str): [exc, rgb]; exc is the exception that escapes, if any
hex_to_rgb(color_str) ==
    LET s  == Strip(Lower(color_str))
        h0 == IF InColorNames(s) THEN COLOR_NAME_TO_HEX(s) ELSE s
        h1 == LStripSet(h0, {"#"})
        h2 == IF Len(h1) = 3 THEN DoubleChars(h1) ELSE h1
    IN  IF Len(h2) # 6 THEN [exc |-> "", rgb |-> White]
        ELSE ParsePairs(h2)

----------------------------------------------------------------------------
(* Attribute values and document elements.                                 *)
(*                                                                         *)
(* A numeric attribute is absent, a number, or text that float() rejects.  *)
(* An element is [tag, stroke, transform, a, pts, d, children]:            *)
(*   stroke     <<>> when the attribute is absent, else <<text>>           *)
(*   transform  the attribute as a list of calls [fn, args]                *)
(*   a          the four numeric attributes of the shape, in the order the *)
(*              code reads them                                            *)
(*   pts        the whitespace-separated tokens of "points"                *)
(*   d          <<>> when "d" is absent or empty, else <<segments>>        *)
(*   children   child elements in document order                           *)

Num(v) == [k |-> "num", v |-> v]
AbsentAttr == [k |-> "absent", v |-> 0]
BadAttr == [k |-> "bad", v |-> 0]

\* float(el.get(name, 0))
FloatAttr(a) ==
    IF a.k = "bad" THEN [ok |-> FALSE, v |-> 0]
    ELSE [ok |-> TRUE, v |-> IF a.k = "num" THEN a.v ELSE 0]

num_segments == 20
circle_segments == 36
BED_SIZE == 50

\* Fixed-point scale of the cos/sin table below.
TrigScale == 10 * 10 * 10
\* Local coordinates are integers over LocalDen (a multiple of
\* num_segments^2, for curve samples, and of TrigScale, for circles).
LocalDen == 2 * TrigScale

\* math.cos(2*pi*i/36) and math.sin(2*pi*i/36), i = 0..36, times TrigScale
CosTable == <<1000, 985, 940, 866, 766, 643, 500, 342, 174, 0, -174, -342,
              -500, -643, -766, -866, -940, -985, -1000, -985, -940, -866,
              -766, -643, -500, -342, -174, 0, 174, 342, 500, 643, 766, 866,
              940, 985, 1000>>
SinTable == <<0, 174, 342, 500, 643, 766, 866, 940, 985, 1000, 985, 940, 866,
              766, 643, 500, 342, 174, 0, -174, -342, -500, -643, -766, -866,
              -940, -985, -1000, -985, -940, -866, -766, -643, -500, -342,
              -174, 0>>

Identity == [sx |-> 1, sy |-> 1, tx |-> 0, ty |-> 0]

----------------------------------------------------------------------------
(* parse_transform                                                         *)

Matches(t, fn) == {i \in 1..Len(t) : t[i].fn = fn /\ Len(t[i].args) >= 1}
MatrixMatches(t) == {i \in 1..Len(t) : t[i].fn = "matrix" /\ Len(t[i].args) = 6}
First(S) == CHOOSE i \in S : \A j \in S : i <= j

\* float(match.group(2)): the text after the first comma, up to ")"
Group2Ok(ar) == Len(ar) = 2 /\ ar[2].num

\* parse_transform(transform_str): [exc, sx, sy, tx, ty]
parse_transform(t) ==
    LET sm == Matches(t, "scale")
        tm == Matches(t, "translate")
        mm == MatrixMatches(t)
        sa == t[First(sm)].args
        ta == t[First(tm)].args
        ma == t[First(mm)].args
        sOk == sm = {} \/ (sa[1].num /\ (Len(sa) = 1 \/ Group2Ok(sa)))
        tOk == tm = {} \/ (ta[1].num /\ (Len(ta) = 1 \/ Group2Ok(ta)))
        mOk == mm = {} \/ (ma[1].num /\ ma[4].num /\ ma[5].num /\ ma[6].num)
        sx1 == IF sm = {} THEN 1 ELSE sa[1].v
        sy1 == IF sm = {} THEN 1 ELSE IF Len(sa) >= 2 THEN sa[2].v ELSE sx1
        tx1 == IF tm = {} THEN 0 ELSE ta[1].v
        ty1 == IF tm = {} THEN 0 ELSE IF Len(ta) >= 2 THEN ta[2].v ELSE 0
    IN  IF t = <<>> THEN [exc |-> ""] @@ Identity
        ELSE IF ~(sOk /\ tOk /\ mOk)
             THEN [exc |-> "ValueError"] @@ Identity
        ELSE IF mm # {}
             THEN [exc |-> "", sx |-> ma[1].v, sy |-> ma[4].v,
                   tx |-> ma[5].v, ty |-> ma[6].v]
        ELSE [exc |-> "", sx |-> sx1, sy |-> sy1, tx |-> tx1, ty |-> ty1]

\* A variant of Compose that scales the local translation by the local
\* scale instead of the parent's.
ComposeLocalScale(p, l) ==
    [sx |-> p.sx * l.sx, sy |-> p.sy * l.sy,
     tx |-> l.sx * l.tx + p.tx, ty |-> l.sy * l.ty + p.ty]

\* csx, csy = psx*lsx, psy*lsy; ctx, cty = psx*ltx + ptx, psy*lty + pty
Compose(p, l) ==
    [sx |-> p.sx * l.sx, sy |-> p.sy * l.sy,
     tx |-> p.sx * l.tx + p.tx, ty |-> p.sy * l.ty + p.ty]

----------------------------------------------------------------------------
(* Point mapping.  fit = [m, w, h] is the document size with               *)
(* m = max(w, h): global_scale = BED_SIZE/m, global_ox = (BED_SIZE -       *)
(* w*global_scale)/2, global_oy likewise.  A machine point <<nx, ny>> is   *)
(* in units of 1/MachineDen(fit).                                          *)

MachineDen(fit) == 2 * fit.m * LocalDen

\* A variant of MapPoint that does not flip y.
MapPointNoFlip(X, Y, ct, fit) ==
    LET xt == X * ct.sx + ct.tx * LocalDen
        yt == Y * ct.sy + ct.ty * LocalDen
    IN  << xt * 2 * BED_SIZE + BED_SIZE * (fit.m - fit.w) * LocalDen,
           yt * 2 * BED_SIZE + BED_SIZE * (fit.m - fit.h) * LocalDen >>

\* x_transformed = x*csx + ctx; mx = x_transformed*global_scale + global_ox
\* y_transformed = y*csy + cty; my = (h - y_transformed)*global_scale + global_oy
MapPoint(X, Y, ct, fit) ==
    LET xt == X * ct.sx + ct.tx * LocalDen
        yt == Y * ct.sy + ct.ty * LocalDen
    IN  << xt * 2 * BED_SIZE + BED_SIZE * (fit.m - fit.w) * LocalDen,
           (fit.h * LocalDen - yt) * 2 * BED_SIZE
               + BED_SIZE * (fit.m - fit.h) * LocalDen >>

----------------------------------------------------------------------------
(* Insertion-ordered dict {stroke key -> list of paths}, as a sequence of  *)
(* [key, paths].  A path is [pts, src]: pts the machine points, src the    *)
(* position of the shape in the tree (child indices from the root), kept   *)
(* only to state where a path came from.                                   *)

DictHas(d, k) == \E i \in 1..Len(d) : d[i].key = k

DictGet(d, k) == d[CHOOSE i \in 1..Len(d) : d[i].key = k].paths

DictKeys(d) == [i \in 1..Len(d) |-> d[i].key]

\* if k not in paths: paths[k] = []
DictTouch(d, k) ==
    IF DictHas(d, k) THEN d ELSE Append(d, [key |-> k, paths |-> <<>>])

\* if k not in paths: paths[k] = []; paths[k].extend(ps)
DictExtend(d, k, ps) ==
    LET d1 == DictTouch(d, k)
    IN  [i \in 1..Len(d1) |->
            IF d1[i].key = k THEN [d1[i] EXCEPT !.paths = @ \o ps] ELSE d1[i]]

----------------------------------------------------------------------------
(* Flattening of one shape element.                                        *)

DefaultStroke == <<"#","0","0","0","0","0","0">>

\* el.get("stroke", "#000000")
StrokeKey(el) == IF el.stroke = <<>> THEN DefaultStroke ELSE el.stroke[1]

Loc(v) == v * LocalDen

AllOk(f) == \A i \in 1..Len(f) : f[i].ok

\* range(n + 1)
Range0(n) == [i \in 1..(n + 1) |-> i - 1]

\* <line>: one two-point path
LinePaths(el, ct, fit, addr) ==
    LET f == [i \in 1..4 |-> FloatAttr(el.a[i])]
    IN  IF ~AllOk(f) THEN [exc |-> "ValueError", touch |-> TRUE, paths |-> <<>>]
        ELSE [exc |-> "", touch |-> TRUE,
              paths |-> << [pts |-> << MapPoint(Loc(f[1].v), Loc(f[2].v), ct, fit),
                                       MapPoint(Loc(f[3].v), Loc(f[4].v), ct, fit) >>,
                            src |-> addr] >>]

\* <rect>: four corners and the first again
RectPaths(el, ct, fit, addr) ==
    LET f == [i \in 1..4 |-> FloatAttr(el.a[i])]
        x == f[1].v
        y == f[2].v
        width == f[3].v
        height == f[4].v
        corners == << <<x, y>>, <<x + width, y>>, <<x + width, y + height>>,
                      <<x, y + height>>, <<x, y>> >>
    IN  IF ~AllOk(f) THEN [exc |-> "ValueError", touch |-> TRUE, paths |-> <<>>]
        ELSE [exc |-> "", touch |-> TRUE,
              paths |-> << [pts |-> [i \in 1..5 |->
                                MapPoint(Loc(corners[i][1]), Loc(corners[i][2]), ct, fit)],
                            src |-> addr] >>]

\* The last sample is taken at angle 2*pi, where math.cos gives 1.0 and
\* math.sin gives -2.4492935982947064e-16, not 0: y = cy + ry*sin(angle) and
\* what is computed from it may or may not round to the value of the first
\* sample.  TwoPiShort lists the <<cy, ry, csy, cty, w, h>> among the
\* documents of this module for which the doubles of the last and the first
\* point differ (the last my is the greater, by a unit in the last place).
TwoPiShort ==
    { <<10, 10, 3, 2, 100, 50>>, <<10, 20, 3, 2, 100, 50>>, <<25, 10, 3, 2, 100, 50>>,
      <<25, 20, 3, 2, 100, 50>>, <<40, 20, 1, 0, 100, 50>>, <<40, 20, 3, 2, 100, 50>> }

\* <circle> (rx = ry = r) and <ellipse>: circle_segments + 1 points.  A
\* last point that differs from the first in the last place is written as
\* one unit of the machine grid above it.
EllipsePoints(cx, cy, rx, ry, ct, fit) ==
    [i \in 1..(circle_segments + 1) |->
        LET pt == MapPoint(Loc(cx) + rx * CosTable[i] * (LocalDen \div TrigScale),
                           Loc(cy) + ry * SinTable[i] * (LocalDen \div TrigScale), ct, fit)
        IN  IF i = circle_segments + 1 /\ <<cy, ry, ct.sy, ct.ty, fit.w, fit.h>> \in TwoPiShort
            THEN <<pt[1], pt[2] + 1>>
            ELSE pt]

CirclePaths(el, ct, fit, addr) ==
    LET f == [i \in 1..3 |-> FloatAttr(el.a[i])]
    IN  IF ~AllOk(f) THEN [exc |-> "ValueError", touch |-> TRUE, paths |-> <<>>]
        ELSE [exc |-> "", touch |-> TRUE,
              paths |-> << [pts |-> EllipsePoints(f[1].v, f[2].v, f[3].v, f[3].v, ct, fit),
                            src |-> addr] >>]

EllipsePaths(el, ct, fit, addr) ==
    LET f == [i \in 1..4 |-> FloatAttr(el.a[i])]
    IN  IF ~AllOk(f) THEN [exc |-> "ValueError", touch |-> TRUE, paths |-> <<>>]
        ELSE [exc |-> "", touch |-> TRUE,
              paths |-> << [pts |-> EllipsePoints(f[1].v, f[2].v, f[3].v, f[4].v, ct, fit),
                            src |-> addr] >>]

\* A "points" token is [k, x, y]: k = "pair" for "x,y" with two numbers,
\* "nocomma" for a token without a comma (skipped), "bad" for a token with a
\* comma that is not two numbers (map(float, ...) or the unpacking raises).
PointTokensOk(pts) == \A i \in 1..Len(pts) : pts[i].k # "bad"

IsPair(tok) == tok.k = "pair"

ParsedPoints(pts, ct, fit) ==
    LET pairs == SelectSeq(pts, IsPair)
    IN  [i \in 1..Len(pairs) |-> MapPoint(Loc(pairs[i].x), Loc(pairs[i].y), ct, fit)]

\* <polyline>: the parsed points, kept if there is at least one
PolylinePaths(el, ct, fit, addr) ==
    LET path == ParsedPoints(el.pts, ct, fit)
    IN  IF ~PointTokensOk(el.pts) THEN [exc |-> "ValueError", touch |-> TRUE, paths |-> <<>>]
        ELSE [exc |-> "", touch |-> TRUE,
              paths |-> IF path # <<>> THEN << [pts |-> path, src |-> addr] >> ELSE <<>>]

\* A variant of PolygonPaths that does not close the path.
PolygonPathsNotClosed(el, ct, fit, addr) ==
    LET path == ParsedPoints(el.pts, ct, fit)
    IN  IF ~PointTokensOk(el.pts) THEN [exc |-> "ValueError", touch |-> TRUE, paths |-> <<>>]
        ELSE [exc |-> "", touch |-> TRUE,
              paths |-> IF Len(path) > 2
                        THEN << [pts |-> path, src |-> addr] >>
                        ELSE <<>>]

\* <polygon>: the parsed points and the first again, kept if more than 2 were parsed
PolygonPaths(el, ct, fit, addr) ==
    LET path == ParsedPoints(el.pts, ct, fit)
    IN  IF ~PointTokensOk(el.pts) THEN [exc |-> "ValueError", touch |-> TRUE, paths |-> <<>>]
        ELSE [exc |-> "", touch |-> TRUE,
              paths |-> IF Len(path) > 2
                        THEN << [pts |-> Append(path, path[1]), src |-> addr] >>
                        ELSE <<>>]

\* A path segment is [type, p, bad]: type "Line" with p = <<start, end>>, or
\* "Curve" (a quadratic Bezier) with p = <<start, control, end>>; bad is the
\* set of sample numbers i for which seg.point(i/num_segments) raises.
CurvePoint(seg, i) ==
    LET n == num_segments
        k == LocalDen \div (n * n)
        c(j) == ((n - i) * (n - i) * seg.p[1][j] + 2 * (n - i) * i * seg.p[2][j]
                    + i * i * seg.p[3][j]) * k
    IN  <<c(1), c(2)>>

SegPaths(seg, ct, fit, addr) ==
    IF seg.type = "Line"
    THEN << [pts |-> << MapPoint(Loc(seg.p[1][1]), Loc(seg.p[1][2]), ct, fit),
                        MapPoint(Loc(seg.p[2][1]), Loc(seg.p[2][2]), ct, fit) >>,
             src |-> addr] >>
    ELSE LET good(i) == i \notin seg.bad
             ts == SelectSeq(Range0(num_segments), good)
             path == [j \in 1..Len(ts) |->
                         MapPoint(CurvePoint(seg, ts[j])[1], CurvePoint(seg, ts[j])[2], ct, fit)]
         IN  IF Len(path) >= 2 THEN << [pts |-> path, src |-> addr] >> ELSE <<>>

RECURSIVE SegsPaths(_, _, _, _)
SegsPaths(segs, ct, fit, addr) ==
    IF segs = <<>> THEN <<>>
    ELSE SegPaths(Head(segs), ct, fit, addr) \o SegsPaths(Tail(segs), ct, fit, addr)

\* <path>: skipped when "d" is absent or empty, else one path per segment
PathPaths(el, ct, fit, addr) ==
    IF el.d = <<>> THEN [exc |-> "", touch |-> FALSE, paths |-> <<>>]
    ELSE [exc |-> "", touch |-> TRUE, paths |-> SegsPaths(el.d[1], ct, fit, addr)]

ShapePaths(el, ct, fit, addr) ==
    CASE el.tag = "path"     -> PathPaths(el, ct, fit, addr)
      [] el.tag = "line"     -> LinePaths(el, ct, fit, addr)
      [] el.tag = "rect"     -> RectPaths(el, ct, fit, addr)
      [] el.tag = "circle"   -> CirclePaths(el, ct, fit, addr)
      [] el.tag = "ellipse"  -> EllipsePaths(el, ct, fit, addr)
      [] el.tag = "polyline" -> PolylinePaths(el, ct, fit, addr)
      [] el.tag = "polygon"  -> PolygonPaths(el, ct, fit, addr)

----------------------------------------------------------------------------
(* extract_paths_recursive                                                 *)

\* A variant of ShapeTags that visits <line> before <path>.
ShapeTagsLineFirst ==
    <<"line", "path", "rect", "circle", "ellipse", "polyline", "polygon">>

\* The order of the seven findall loops.
ShapeTags ==
    <<"path", "line", "rect", "circle", "ellipse", "polyline", "polygon">>

\* element.findall("./svg:<tag>"): the matching children, by index, in
\* document order
FindAll(children, tag) ==
    LET has(i) == children[i].tag = tag
    IN  SelectSeq([i \in 1..Len(children) |-> i], has)

RECURSIVE ShapeOrder(_, _)
\* the order in which the loops visit the shape children
ShapeOrder(children, k) ==
    IF k > Len(ShapeTags) THEN <<>>
    ELSE FindAll(children, ShapeTags[k]) \o ShapeOrder(children, k + 1)

RECURSIVE AddShapes(_, _, _, _, _, _)
AddShapes(children, order, acc, ct, fit, addr) ==
    IF order = <<>> THEN [exc |-> "", paths |-> acc]
    ELSE LET i == Head(order)
             r == ShapePaths(children[i], ct, fit, Append(addr, i))
         IN  IF r.exc # "" THEN [exc |-> r.exc, paths |-> <<>>]
             ELSE AddShapes(children, Tail(order),
                            IF r.touch THEN DictExtend(acc, StrokeKey(children[i]), r.paths)
                            ELSE acc,
                            ct, fit, addr)

RECURSIVE MergeDictReplace(_, _)
\* A variant of MergeDict that assigns the paths of the group to the key
\* (paths[color] = path_list) instead of extending the list.
MergeDictReplace(acc, sub) ==
    IF sub = <<>> THEN acc
    ELSE LET d1 == DictTouch(acc, Head(sub).key)
             d2 == [i \in 1..Len(d1) |->
                       IF d1[i].key = Head(sub).key
                       THEN [d1[i] EXCEPT !.paths = Head(sub).paths] ELSE d1[i]]
         IN  MergeDictReplace(d2, Tail(sub))

RECURSIVE MergeDict(_, _)
\* for color, path_list in sub_paths.items(): paths[color].extend(path_list)
MergeDict(acc, sub) ==
    IF sub = <<>> THEN acc
    ELSE MergeDict(DictExtend(acc, Head(sub).key, Head(sub).paths), Tail(sub))

RECURSIVE extract_paths_recursive(_, _, _, _)
RECURSIVE AddGroups(_, _, _, _, _, _)

\* for g in element.findall("./svg:g"): recurse and merge
AddGroups(children, order, acc, ct, fit, addr) ==
    IF order = <<>> THEN [exc |-> "", paths |-> acc]
    ELSE LET i == Head(order)
             sub == extract_paths_recursive(children[i], ct, fit, Append(addr, i))
         IN  IF sub.exc # "" THEN [exc |-> sub.exc, paths |-> <<>>]
             ELSE AddGroups(children, Tail(order), MergeDict(acc, sub.paths), ct, fit, addr)

\* extract_paths_recursive(element, parent_transform, global_scale, global_ox,
\* global_oy, h): [exc, paths]
extract_paths_recursive(element, parent_transform, fit, addr) ==
    LET l == parse_transform(element.transform)
        ct == Compose(parent_transform, [sx |-> l.sx, sy |-> l.sy, tx |-> l.tx, ty |-> l.ty])
        own == AddShapes(element.children, ShapeOrder(element.children, 1), <<>>, ct, fit, addr)
    IN  IF l.exc # "" THEN [exc |-> l.exc, paths |-> <<>>]
        ELSE IF own.exc # "" THEN own
        ELSE AddGroups(element.children, FindAll(element.children, "g"), own.paths, ct, fit, addr)

----------------------------------------------------------------------------
(* extract_paths.  The size attributes of the root are                     *)
(* [viewBox, width, height]: viewBox is <<>> when absent or empty, else    *)
(* <<tokens>> with the whitespace-separated tokens [num, v]; width and     *)
(* height are attribute values whose number is what remains after          *)
(* re.sub(r'[^\d.]', '', text).                                            *)

Max(a, b) == IF a >= b THEN a ELSE b
Min(a, b) == IF a <= b THEN a ELSE b

\* A variant of DocumentSize that takes a 100 x 100 canvas where line 324
\* raises.
DocumentSizeDefaultCanvas(size) ==
    IF size.viewBox = <<>>
    THEN IF size.width.k = "absent" \/ size.height.k = "absent"
         THEN [exc |-> "", w |-> 100, h |-> 100]
         ELSE IF size.width.k = "bad" \/ size.height.k = "bad"
         THEN [exc |-> "ValueError", w |-> 0, h |-> 0]
         ELSE [exc |-> "", w |-> size.width.v, h |-> size.height.v]
    ELSE LET vb == size.viewBox[1]
         IN  IF Len(vb) # 4 \/ \E i \in 1..Len(vb) : ~vb[i].num
             THEN [exc |-> "ValueError", w |-> 0, h |-> 0]
             ELSE [exc |-> "", w |-> vb[3].v, h |-> vb[4].v]

\* lines 318-329: [exc, w, h]
DocumentSize(size) ==
    IF size.viewBox = <<>>
    THEN IF size.width.k = "absent" \/ size.height.k = "absent"
         THEN [exc |-> "ValueError", w |-> 0, h |-> 0]
         ELSE IF size.width.k = "bad" \/ size.height.k = "bad"
         THEN [exc |-> "ValueError", w |-> 0, h |-> 0]
         ELSE [exc |-> "", w |-> size.width.v, h |-> size.height.v]
    ELSE LET vb == size.viewBox[1]
         IN  IF Len(vb) # 4 \/ \E i \in 1..Len(vb) : ~vb[i].num
             THEN [exc |-> "ValueError", w |-> 0, h |-> 0]
             ELSE [exc |-> "", w |-> vb[3].v, h |-> vb[4].v]

\* extract_paths(root): [exc, paths]
extract_paths(doc) ==
    LET sz == DocumentSize(doc.size)
        m == Max(sz.w, sz.h)
    IN  IF sz.exc # "" THEN [exc |-> sz.exc, paths |-> <<>>]
        ELSE IF m = 0 THEN [exc |-> "ZeroDivisionError", paths |-> <<>>]
        ELSE extract_paths_recursive(doc.el, Identity, [m |-> m, w |-> sz.w, h |-> sz.h], <<>>)

----------------------------------------------------------------------------
(* svg_to_rd: ordering of the colours and power of a layer.                *)

Sum3(rgb) == rgb[1] + rgb[2] + rgb[3]

\* A variant of SortKey that orders darkest first.
SortKeyDarkFirst(k) == 0 - Sum3(hex_to_rgb(k).rgb)

\* key=lambda k: sum(hex_to_rgb(k))
SortKey(k) == Sum3(hex_to_rgb(k).rgb)

RECURSIVE InsertSorted(_, _)
\* k goes after every element whose sort key is not greater (stable)
InsertSorted(sorted, k) ==
    IF sorted = <<>> THEN <<k>>
    ELSE IF SortKey(Head(sorted)) <= SortKey(k)
         THEN <<Head(sorted)>> \o InsertSorted(Tail(sorted), k)
         ELSE <<k>> \o sorted

RECURSIVE SortedFrom(_, _)
SortedFrom(acc, keys) ==
    IF keys = <<>> THEN acc ELSE SortedFrom(InsertSorted(acc, Head(keys)), Tail(keys))

\* sorted(paths_by_color.keys(), key=lambda k: sum(hex_to_rgb(k)))
Sorted(keys) == SortedFrom(<<>>, keys)

\* int(x) for x = n/d, d > 0: truncation toward zero
Trunc(n, d) == IF n >= 0 THEN n \div d ELSE 0 - ((0 - n) \div d)

\* The colours of the model's inputs for which 0.299*r + 0.587*g + 0.114*b,
\* computed in double precision, falls just short of its exact integer value
\* (so that int() gives the integer one nearer to zero).
FloatShort == { <<1, 1, 1>>, <<2, 2, 2>>, <<128, 128, 128>>, <<-1, -1, -1>> }

LumaDen == 10 * 10 * 10
\* 0.299*r + 0.587*g + 0.114*b, times LumaDen
Luma(rgb) == 299 * rgb[1] + 587 * rgb[2] + 114 * rgb[3]

\* A variant of gray_value that rounds to the nearest integer.
gray_value_rounded(rgb) == Trunc(2 * Luma(rgb) + LumaDen, 2 * LumaDen)

\* gray_value = int(0.299 * rgb[0] + 0.587 * rgb[1] + 0.114 * rgb[2])
gray_value(rgb) ==
    LET e == Trunc(Luma(rgb), LumaDen)
    IN  IF rgb \in FloatShort THEN (IF e > 0 THEN e - 1 ELSE e + 1) ELSE e

PowerDen == 255

\* A variant of Power that does not invert the gray value.
PowerNotInverted(rgb, min_power, max_power) ==
    Min(PowerDen * max_power,
        PowerDen * min_power + gray_value(rgb) * (max_power - min_power))

\* power = min(max_power, min_power + (1.0 - gray_value/255.0) * power_range),
\* times PowerDen
Power(rgb, min_power, max_power) ==
    Min(PowerDen * max_power,
        PowerDen * min_power + (PowerDen - gray_value(rgb)) * (max_power - min_power))

\* A variant of Layer whose power follows the speed.
LayerSpeedPower(key, paths, speed, power, rgb) ==
    [key |-> key, paths |-> paths, speed |-> speed,
     power |-> IF speed = <<>> THEN <<power, power>>
               ELSE <<power + speed[1], power + speed[1]>>,
     color |-> rgb]

\* RuidaLayer(paths=paths, speed=speed, power=[power, power], color=list(rgb));
\* key is the colour key printed with the layer
Layer(key, paths, speed, power, rgb) ==
    [key |-> key, paths |-> paths, speed |-> speed, power |-> <<power, power>>,
     color |-> rgb]

----------------------------------------------------------------------------
(* main.py.  An option that was not given is <<>> (None), a given one is   *)
(* <<value>>.  quality_factor is in hundredths.                            *)

default_mode == <<"performance">>

\* apply_preset_defaults(args): [exit, args]
apply_preset_defaults(a) ==
    LET q  == a.quality
        a1 == IF q # <<>>
              THEN [a EXCEPT !.effective_mode = IF q[1] >= 70 THEN <<"quality">>
                                                ELSE <<"performance">>,
                             !.quality_factor = <<q[1]>>]
              ELSE [a EXCEPT !.effective_mode = a.mode,
                             !.quality_factor = IF a.mode = <<"quality">> THEN <<100>>
                                                ELSE <<20>>]
        dflt(v, d) == IF v = <<>> THEN <<d>> ELSE v
        a2 == IF a1.preset = <<"engrave">>
              THEN [a1 EXCEPT !.speed = dflt(@, 400), !.min_power = dflt(@, 5),
                              !.max_power = dflt(@, 80),
                              !.num_colors = dflt(@, 2 + (10 * a1.quality_factor[1]) \div 100),
                              !.img_scale = dflt(@, 1)]
              ELSE IF a1.preset = <<"cut">>
              THEN [a1 EXCEPT !.speed = dflt(@, 20), !.min_power = dflt(@, 80),
                              !.max_power = dflt(@, 80), !.num_colors = dflt(@, 2),
                              !.img_scale = dflt(@, 1)]
              ELSE a1
    IN  IF q # <<>> /\ ~(0 <= q[1] /\ q[1] <= 100)
        THEN [exit |-> TRUE, args |-> a]
        ELSE [exit |-> FALSE, args |-> a2]

SvgExts == {".svg"}
ConvertedExts == {".dxf", ".pdf", ".png", ".jpg", ".jpeg"}

NoFile == [exists |-> FALSE, wellformed |-> FALSE,
           doc |-> [size |-> [viewBox |-> <<>>, width |-> AbsentAttr, height |-> AbsentAttr],
                    el |-> [tag |-> "svg", stroke |-> <<>>, transform |-> <<>>,
                            a |-> <<>>, pts |-> <<>>, d |-> <<>>, children |-> <<>>]]]

NoPrev == [rd |-> <<>>, rd_file |-> "absent", exc |-> "", args |-> <<>>]

\* The file that a path names.
FileAt(path) == IF path = "input" THEN input_file.file ELSE temp_file
SvgFile == FileAt(svg_input)

----------------------------------------------------------------------------
(* Actions: main() of main.py                                              *)

\* main.py lines 148-163
Main_ApplyPresetDefaults ==
    /\ pc = "main"
    /\ LET r == apply_preset_defaults(args)
       IN  IF r.exit
           THEN /\ exc' = "SystemExit"
                /\ pc' = "exit"
                /\ stdout' = stdout \cup {"Error: Quality must be between 0 and 100"}
                /\ args' = args
           ELSE /\ args' = r.args
                /\ pc' = "convert"
                /\ UNCHANGED <<exc, stdout>>
    /\ UNCHANGED <<argv, input_file, temp_file, svg_input, temp_svg_path, root,
                   paths_by_color, sorted_colors, idx, rd, rd_file, run, prev>>

\* convert_to_svg, ext == '.svg'
Main_ConvertSvg ==
    /\ pc = "convert"
    /\ input_file.ext \in SvgExts
    /\ svg_input' = "input"
    /\ pc' = "check"
    /\ UNCHANGED <<argv, args, input_file, temp_file, temp_svg_path, root,
                   paths_by_color, sorted_colors, idx, rd, rd_file, stdout, exc, run, prev>>

\* convert_to_svg, a DXF, PDF or image input: the converter writes
\* "<input>_temp.svg", returns without writing it, or exits
Main_ConvertOther ==
    /\ pc = "convert"
    /\ input_file.ext \in ConvertedExts
    /\ IF input_file.conv = "exit"
       THEN /\ exc' = "SystemExit"
            /\ pc' = "finally"
            /\ UNCHANGED <<temp_file, svg_input>>
       ELSE /\ temp_file' = IF input_file.conv = "written" THEN input_file.file
                            ELSE temp_file
            /\ svg_input' = "temp"
            /\ pc' = "check"
            /\ exc' = exc
    /\ UNCHANGED <<argv, args, input_file, temp_svg_path, root,
                   paths_by_color, sorted_colors, idx, rd, rd_file, stdout, run, prev>>

\* convert_to_svg, any other extension
Main_ConvertUnsupported ==
    /\ pc = "convert"
    /\ input_file.ext \notin SvgExts \cup ConvertedExts
    /\ stdout' = stdout \cup {"Error: Unsupported input file format"}
    /\ exc' = "SystemExit"
    /\ pc' = "finally"
    /\ UNCHANGED <<argv, args, input_file, temp_file, svg_input, temp_svg_path, root,
                   paths_by_color, sorted_colors, idx, rd, rd_file, run, prev>>

\* main.py lines 169-173
Main_CheckSvgInput ==
    /\ pc = "check"
    /\ IF ~SvgFile.exists
       THEN /\ stdout' = stdout \cup {"Error: SVG conversion failed."}
            /\ exc' = "SystemExit"
            /\ pc' = "finally"
       ELSE /\ stdout' = stdout \cup {"Converting SVG to RD..."}
            /\ exc' = exc
            /\ pc' = "parse"
    /\ UNCHANGED <<argv, args, input_file, temp_file, svg_input, temp_svg_path, root,
                   paths_by_color, sorted_colors, idx, rd, rd_file, run, prev>>

\* main.py line 175, reached when svg_to_rd returned
Main_Report ==
    /\ pc = "report"
    /\ stdout' = stdout \cup {"Successfully created"}
    /\ pc' = "finally"
    /\ UNCHANGED <<argv, args, input_file, temp_file, svg_input, temp_svg_path, root,
                   paths_by_color, sorted_colors, idx, rd, rd_file, exc, run, prev>>

\* main.py lines 177-180
Main_Finally ==
    /\ pc = "finally"
    /\ IF temp_svg_path # <<>> /\ temp_file.exists
       THEN /\ temp_file' = NoFile
            /\ stdout' = stdout \cup {"Cleaned up temporary file"}
       ELSE UNCHANGED <<temp_file, stdout>>
    /\ pc' = "exit"
    /\ UNCHANGED <<argv, args, input_file, svg_input, temp_svg_path, root,
                   paths_by_color, sorted_colors, idx, rd, rd_file, exc, run, prev>>

----------------------------------------------------------------------------
(* Actions: svg_to_rd() of src/svg2rd.py                                   *)

\* lines 339-343, the except branch
SvgToRd_ParseError ==
    /\ pc = "parse"
    /\ ~SvgFile.wellformed
    /\ stdout' = stdout \cup {"Error parsing SVG file"}
    /\ pc' = "report"
    /\ UNCHANGED <<argv, args, input_file, temp_file, svg_input, temp_svg_path, root,
                   paths_by_color, sorted_colors, idx, rd, rd_file, exc, run, prev>>

\* lines 339-345
SvgToRd_Parse ==
    /\ pc = "parse"
    /\ SvgFile.wellformed
    /\ root' = svg_input
    /\ pc' = "extract"
    /\ UNCHANGED <<argv, args, input_file, temp_file, svg_input, temp_svg_path,
                   paths_by_color, sorted_colors, idx, rd, rd_file, stdout, exc, run, prev>>

\* line 346
SvgToRd_ExtractPaths ==
    /\ pc = "extract"
    /\ LET r == extract_paths(FileAt(root).doc)
       IN  IF r.exc # ""
           THEN /\ exc' = r.exc
                /\ pc' = "finally"
                /\ UNCHANGED paths_by_color
           ELSE /\ paths_by_color' = r.paths
                /\ pc' = "extracted"
                /\ UNCHANGED exc
    /\ UNCHANGED <<argv, args, input_file, temp_file, svg_input, temp_svg_path, root,
                   sorted_colors, idx, rd, rd_file, stdout, run, prev>>

\* lines 348-353
SvgToRd_NoPaths ==
    /\ pc = "extracted"
    /\ paths_by_color = <<>>
    /\ stdout' = stdout \cup {"Warning: No vector paths found"}
    /\ rd_file' = "empty"
    /\ pc' = "report"
    /\ UNCHANGED <<argv, args, input_file, temp_file, svg_input, temp_svg_path, root,
                   paths_by_color, sorted_colors, idx, rd, exc, run, prev>>

\* lines 355-362
SvgToRd_SortColors ==
    /\ pc = "extracted"
    /\ paths_by_color # <<>>
    /\ LET keys == DictKeys(paths_by_color)
           bad == {i \in 1..Len(keys) : hex_to_rgb(keys[i]).exc # ""}
       IN  IF bad # {}
           THEN /\ exc' = hex_to_rgb(keys[First(bad)]).exc
                /\ pc' = "finally"
                /\ UNCHANGED <<sorted_colors, idx, rd>>
           ELSE /\ sorted_colors' = Sorted(keys)
                /\ idx' = 1
                /\ rd' = <<>>
                /\ pc' = "layers"
                /\ UNCHANGED exc
    /\ UNCHANGED <<argv, args, input_file, temp_file, svg_input, temp_svg_path, root,
                   paths_by_color, rd_file, stdout, run, prev>>

\* lines 364-367
SvgToRd_SkipColor ==
    /\ pc = "layers"
    /\ idx <= Len(sorted_colors)
    /\ DictGet(paths_by_color, sorted_colors[idx]) = <<>>
    /\ idx' = idx + 1
    /\ UNCHANGED <<pc, argv, args, input_file, temp_file, svg_input, temp_svg_path, root,
                   paths_by_color, sorted_colors, rd, rd_file, stdout, exc, run, prev>>

\* lines 369-389
SvgToRd_AddLayer ==
    /\ pc = "layers"
    /\ idx <= Len(sorted_colors)
    /\ DictGet(paths_by_color, sorted_colors[idx]) # <<>>
    /\ args.min_power # <<>> /\ args.max_power # <<>>
    /\ LET color_hex == sorted_colors[idx]
           rgb == hex_to_rgb(color_hex).rgb
           power == Power(rgb, args.min_power[1], args.max_power[1])
       IN  rd' = Append(rd, Layer(color_hex, DictGet(paths_by_color, color_hex),
                                  args.speed, power, rgb))
    /\ idx' = idx + 1
    /\ UNCHANGED <<pc, argv, args, input_file, temp_file, svg_input, temp_svg_path, root,
                   paths_by_color, sorted_colors, rd_file, stdout, exc, run, prev>>

\* line 376 with min_power or max_power None
SvgToRd_AddLayerTypeError ==
    /\ pc = "layers"
    /\ idx <= Len(sorted_colors)
    /\ DictGet(paths_by_color, sorted_colors[idx]) # <<>>
    /\ args.min_power = <<>> \/ args.max_power = <<>>
    /\ exc' = "TypeError"
    /\ pc' = "finally"
    /\ UNCHANGED <<argv, args, input_file, temp_file, svg_input, temp_svg_path, root,
                   paths_by_color, sorted_colors, idx, rd, rd_file, stdout, run, prev>>

\* lines 391-397
SvgToRd_Write ==
    /\ pc = "layers"
    /\ idx > Len(sorted_colors)
    /\ rd_file' = "rd"
    /\ stdout' = stdout \cup {"Successfully wrote"}
    /\ pc' = "report"
    /\ UNCHANGED <<argv, args, input_file, temp_file, svg_input, temp_svg_path, root,
                   paths_by_color, sorted_colors, idx, rd, exc, run, prev>>

----------------------------------------------------------------------------
(* A second invocation on the same input with another --speed.             *)

SpeedChoices == { <<300>>, <<400>> }

Restart ==
    /\ pc = "exit"
    /\ run = 1
    /\ \E s \in SpeedChoices :
          /\ s # argv.speed
          /\ argv' = [argv EXCEPT !.speed = s]
          /\ args' = [argv EXCEPT !.speed = s]
    /\ prev' = [rd |-> rd, rd_file |-> rd_file, exc |-> exc, args |-> <<args>>]
    /\ run' = 2
    /\ pc' = "main"
    /\ svg_input' = ""
    /\ root' = ""
    /\ paths_by_color' = <<>>
    /\ sorted_colors' = <<>>
    /\ idx' = 0
    /\ rd' = <<>>
    /\ exc' = ""
    /\ stdout' = {}
    /\ UNCHANGED <<input_file, temp_file, temp_svg_path, rd_file>>

----------------------------------------------------------------------------
(* Inputs.                                                                 *)

MaxChildren == 2    \* children of the root in the structural documents
MaxColors == 3      \* lines of the colour documents
MaxStrLen == 3      \* length of the enumerated stroke strings
MaxPoints == 4      \* points of the polyline and polygon documents

RECURSIVE SeqsOfLen(_, _)
SeqsOfLen(S, n) ==
    IF n = 0 THEN { <<>> }
    ELSE { Append(q, x) : q \in SeqsOfLen(S, n - 1), x \in S }

SeqsUpTo(S, n) == UNION { SeqsOfLen(S, k) : k \in 0..n }

El(tag, stroke, transform, a, pts, d, children) ==
    [tag |-> tag, stroke |-> stroke, transform |-> transform, a |-> a, pts |-> pts,
     d |-> d, children |-> children]

Shape(tag, stroke, a) == El(tag, stroke, <<>>, a, <<>>, <<>>, <<>>)
Poly(tag, stroke, pts) == El(tag, stroke, <<>>, <<>>, pts, <<>>, <<>>)
PathEl(stroke, d) == El("path", stroke, <<>>, <<>>, <<>>, d, <<>>)
Group(transform, children) == El("g", <<>>, transform, <<>>, <<>>, <<>>, children)
SvgRoot(children) == El("svg", <<>>, <<>>, <<>>, <<>>, <<>>, children)

Nums(a, b, c, d) == <<Num(a), Num(b), Num(c), Num(d)>>
Pair(x, y) == [k |-> "pair", x |-> x, y |-> y]
NoComma == [k |-> "nocomma", x |-> 0, y |-> 0]
BadToken == [k |-> "bad", x |-> 0, y |-> 0]
Arg(v) == [num |-> TRUE, v |-> v]
BadArg == [num |-> FALSE, v |-> 0]
Call(fn, ar) == [fn |-> fn, args |-> ar]
LineSeg(p, q) == [type |-> "Line", p |-> <<p, q>>, bad |-> {}]
CurveSeg(p, c, q, bad) == [type |-> "Curve", p |-> <<p, c, q>>, bad |-> bad]

S_red == <<"r","e","d">>
S_blue == <<"b","l","u","e">>
S_green == <<"g","r","e","e","n">>
S_white == <<"w","h","i","t","e">>
S_black == <<"b","l","a","c","k">>
S_none == <<"n","o","n","e">>
S_notacolor == <<"n","o","t","-","a","-","c","o","l","o","r">>
S_hexred == <<"#","f","f","0","0","0","0">>
S_hex010101 == <<"#","0","1","0","1","0","1">>
S_hex808080 == <<"#","8","0","8","0","8","0">>

Tri == << Pair(0, 0), Pair(10, 0), Pair(10, 10) >>

\* viewBox="0 0 100 50"
Size100x50 == [viewBox |-> << <<Arg(0), Arg(0), Arg(100), Arg(50)>> >>,
               width |-> AbsentAttr, height |-> AbsentAttr]

PlainLine == Shape("line", <<>>, Nums(0, 0, 10, 10))

NestedGroup ==
    Group(<< Call("translate", <<Arg(10), Arg(0)>>) >>,
          << Group(<< Call("scale", <<Arg(2), Arg(3)>>) >>,
                   << Shape("line", <<>>, Nums(1, 1, 2, 2)), Poly("polyline", <<>>, Tri) >>),
             Shape("line", <<>>, Nums(3, 3, 4, 4)) >>)

\* The shapes and groups of the structural documents.
StructPool ==
    << PlainLine,
       PathEl(<<>>, << << LineSeg(<<0, 0>>, <<20, 0>>),
                          CurveSeg(<<0, 0>>, <<10, 20>>, <<20, 0>>, {}) >> >>),
       Shape("rect", <<>>, Nums(10, 10, 30, 20)),
       Shape("ellipse", <<S_red>>, Nums(50, 25, 20, 10)),
       Poly("polyline", <<>>, Tri),
       Poly("polygon", <<>>, Tri),
       Shape("line", <<>>, <<BadAttr, Num(0), Num(10), Num(10)>>),
       Poly("polygon", <<S_blue>>, << Pair(0, 0), Pair(10, 0) >>),
       Group(<<>>, <<PlainLine>>),
       Group(<< Call("scale", <<Arg(2)>>), Call("translate", <<Arg(5), Arg(5)>>) >>,
             << Shape("rect", <<S_red>>, Nums(0, 0, 10, 10)),
                PathEl(<<>>, << << LineSeg(<<1, 1>>, <<2, 2>>) >> >>) >>),
       Group(<< Call("scale", <<BadArg>>) >>, <<PlainLine>>),
       NestedGroup >>

\* The i-th line of a colour document: a line of its own geometry, or (for
\* e = TRUE) a two-point polygon, which makes the key without a path.
ColorChild(c, i) ==
    IF c.e THEN Poly("polygon", c.s, << Pair(0, 0), Pair(10, 0) >>)
    ELSE Shape("line", c.s, Nums(10 * i, 0, 10 * i, 10))

ColorPool ==
    << [s |-> <<S_white>>, e |-> FALSE], [s |-> <<S_black>>, e |-> FALSE],
       [s |-> <<S_hexred>>, e |-> FALSE], [s |-> <<S_blue>>, e |-> FALSE],
       [s |-> <<S_green>>, e |-> TRUE] >>

StrokeAlphabet == {"#", "f", "0", "g", " ", "F"}

SpecialStrokes ==
    { S_hexred, <<"f","f","0","0","0","0">>, <<"#","#","f","f","0","0","0","0">>,
      <<"#","F","F","0","0","0","0">>, <<" ","#","f","f","0","0","0","0"," ">>,
      S_notacolor, S_none, <<"N","O","N","E">>, S_red, <<" ","R","e","d"," ">>,
      <<"-","1","-","1","-","1">>, <<"+","f","+","f","+","f">>,
      <<"f"," ","0"," ","f","0">>, <<"g","g","g","g","g","g">>,
      <<"#","1","2","3","4","5">>, S_hex010101, S_hex808080,
      <<"#","0","2","0","2","0","2">>, <<"#","c","0","c","0","c","0">> }

StrokeStrings ==
    SeqsUpTo(StrokeAlphabet, MaxStrLen) \cup SpecialStrokes
        \cup { ColorNames[i] : i \in 1..Len(ColorNames) }

SizeVariants ==
    { Size100x50,
      [viewBox |-> << <<Arg(0), Arg(0), Arg(50), Arg(100)>> >>,
       width |-> AbsentAttr, height |-> AbsentAttr],
      [viewBox |-> << <<Arg(0), Arg(0), Arg(0), Arg(0)>> >>,
       width |-> AbsentAttr, height |-> AbsentAttr],
      [viewBox |-> << <<BadArg>> >>, width |-> Num(100), height |-> Num(50)],
      [viewBox |-> << <<Arg(0), Arg(0), Arg(100)>> >>,
       width |-> AbsentAttr, height |-> AbsentAttr],
      [viewBox |-> <<>>, width |-> Num(100), height |-> Num(50)],
      [viewBox |-> <<>>, width |-> Num(100), height |-> BadAttr],
      [viewBox |-> <<>>, width |-> Num(100), height |-> AbsentAttr],
      [viewBox |-> <<>>, width |-> AbsentAttr, height |-> Num(50)],
      [viewBox |-> <<>>, width |-> AbsentAttr, height |-> AbsentAttr] }

SizeChildren ==
    { <<>>, << Group(<<>>, <<>>) >>, << Group(<< Call("scale", <<BadArg>>) >>, <<>>) >>,
      << Shape("text", <<>>, Nums(0, 0, 0, 0)) >>,
      << PathEl(<<S_green>>, <<>>) >>,
      << PlainLine >>, << Group(<<>>, <<PlainLine>>) >>,
      << Poly("polygon", <<>>, << Pair(0, 0), Pair(10, 0) >>) >>,
      << Poly("polyline", <<>>, <<>>) >>,
      << Poly("polyline", <<>>, << Pair(5, 5), NoComma >>) >>,
      << Poly("polyline", <<>>, << Pair(5, 5), BadToken, Pair(6, 6) >>), PlainLine >>,
      << Shape("line", <<S_red>>, <<AbsentAttr, Num(5), Num(40), AbsentAttr>>) >>,
      << Shape("circle", <<>>, Nums(50, 25, 10, 0)) >>,
      << PathEl(<<>>, << << CurveSeg(<<0, 0>>, <<10, 20>>, <<20, 0>>, 1..num_segments) >> >>) >>,
      << Group(<< Call("rotate", <<Arg(90)>>) >>, <<PlainLine>>) >>,
      << Shape("rect", <<S_red>>, Nums(10, 10, 30, 20)), PlainLine >> }

\* The transform attributes of the nested documents; the last two parse to
\* the identity.
TransformPool ==
    << << Call("translate", <<Arg(10), Arg(0)>>) >>,
       << Call("scale", <<Arg(2), Arg(3)>>), Call("translate", <<Arg(1), Arg(2)>>) >>,
       << Call("matrix", <<Arg(3), Arg(0), Arg(0), Arg(2), Arg(4), Arg(5)>>) >>,
       << Call("rotate", <<Arg(90)>>) >>,
       <<>> >>

\* <svg transform=ta> <g transform=tb> <g transform=tc> a line and a red
\* rect </g> a line </g> a red polyline </svg>
NestedDoc(ta, tb, tc) ==
    [size |-> Size100x50,
     el |-> El("svg", <<>>, ta, <<>>, <<>>, <<>>,
               << Group(tb, << Group(tc, << Shape("line", <<>>, Nums(1, 1, 2, 2)),
                                            Shape("rect", <<S_red>>, Nums(0, 0, 3, 2)) >>),
                               Shape("line", <<>>, Nums(3, 3, 4, 4)) >>),
                  Poly("polyline", <<S_red>>, Tri) >>)]

\* viewBox="minx miny w h"
ViewBox(minx, miny, w, h) ==
    [viewBox |-> << <<Arg(minx), Arg(miny), Arg(w), Arg(h)>> >>,
     width |-> AbsentAttr, height |-> AbsentAttr]

ViewBoxes ==
    { <<0, 0, 100, 50>>, <<0, 0, 50, 100>>, <<0, 0, 40, 40>>, <<0, 0, 7, 3>>,
      <<10, 10, 100, 50>>, <<-20, -10, 40, 80>>, <<0, 30, 50, 50>> }

\* A diagonal and an edge of the viewBox rectangle, the second drawn in a
\* group that moves it there.
BoxDoc(vb) ==
    [size |-> ViewBox(vb[1], vb[2], vb[3], vb[4]),
     el |-> SvgRoot(<< Shape("line", <<>>, Nums(vb[1], vb[2], vb[1] + vb[3], vb[2] + vb[4])),
                       Group(<< Call("translate", <<Arg(vb[1]), Arg(vb[2])>>) >>,
                             << Shape("line", <<S_red>>, Nums(0, vb[4], vb[3], vb[4])) >>) >>)]

\* The i-th point of the point lists below.
PolyPoint(i) == Pair(10 * i, 5 * ((i * i) % 7))

\* A <polyline> and a <polygon> of the same n points, with a token without
\* comma in between (skipped by the parser) when n > 1; directly under the
\* root or in a group that scales and moves them.
PolyDoc(n, grouped) ==
    LET pts == [i \in 1..n |-> PolyPoint(i)]
        toks == IF n > 1 THEN <<pts[1], NoComma>> \o Tail(pts) ELSE pts
        both == << Poly("polyline", <<>>, toks), Poly("polygon", <<>>, toks) >>
    IN  [size |-> Size100x50,
         el |-> SvgRoot(IF grouped THEN << Group(TransformPool[2], both) >> ELSE both)]

\* A circle of radius r, or an ellipse of radii r + 5 and r, about (50, cy),
\* directly under the root or in a group that scales and moves it.
RoundDoc(cy, r, ellipse, grouped) ==
    LET sh == IF ellipse THEN Shape("ellipse", <<>>, Nums(50, cy, r + 5, r))
              ELSE Shape("circle", <<>>, Nums(50, cy, r, 0))
    IN  [size |-> Size100x50,
         el |-> SvgRoot(IF grouped THEN << Group(TransformPool[2], <<sh>>) >> ELSE <<sh>>)]

Given(min_power, max_power, speed) ==
    [preset |-> <<>>, quality |-> <<>>, mode |-> default_mode,
     min_power |-> min_power, max_power |-> max_power, speed |-> speed,
     num_colors |-> <<>>, img_scale |-> <<>>,
     effective_mode |-> <<>>, quality_factor |-> <<>>]

DefaultArgs == Given(<<10>>, <<80>>, <<300>>)

PowerPairs == { <<10, 80>>, <<80, 10>>, <<0, 100>> }

Presets == { <<>>, <<"engrave">>, <<"cut">> }

OptionArgs ==
    { [Given(mn, mx, sp) EXCEPT !.preset = p, !.quality = q] :
        p \in Presets, mn \in {<<>>, <<10>>}, mx \in {<<>>, <<70>>}, sp \in {<<>>, <<300>>},
        q \in {<<>>, <<80>>, <<101>>} }

SvgInput(doc) ==
    [ext |-> ".svg", conv |-> "", file |-> [exists |-> TRUE, wellformed |-> TRUE, doc |-> doc]]

Malformed == [exists |-> TRUE, wellformed |-> FALSE, doc |-> NoFile.doc]

OneLineDoc == [size |-> Size100x50, el |-> SvgRoot(<<PlainLine>>)]
NoShapeDoc == [size |-> Size100x50, el |-> SvgRoot(<<>>)]

FileInputs ==
    { [ext |-> ".svg", conv |-> "", file |-> Malformed],
      [ext |-> ".svg", conv |-> "", file |-> NoFile],
      [ext |-> ".txt", conv |-> "", file |-> NoFile] }
    \cup { [ext |-> e, conv |-> c, file |-> f] :
             e \in ConvertedExts, c \in {"written", "nothing", "exit"},
             f \in { Malformed,
                     [exists |-> TRUE, wellformed |-> TRUE, doc |-> OneLineDoc],
                     [exists |-> TRUE, wellformed |-> TRUE, doc |-> NoShapeDoc] } }

InitRest ==
    /\ args = argv
    /\ pc = "main"
    /\ temp_file = NoFile
    /\ svg_input = ""
    /\ temp_svg_path = <<>>
    /\ root = ""
    /\ paths_by_color = <<>>
    /\ sorted_colors = <<>>
    /\ idx = 0
    /\ rd = <<>>
    /\ rd_file = "absent"
    /\ stdout = {}
    /\ exc = ""
    /\ run = 1
    /\ prev = NoPrev

\* Documents of up to MaxChildren shapes and groups, default options.
InitStruct ==
    \E c \in SeqsUpTo(1..Len(StructPool), MaxChildren) :
        /\ input_file = SvgInput([size |-> Size100x50,
                                  el |-> SvgRoot([i \in 1..Len(c) |-> StructPool[c[i]]])])
        /\ argv = DefaultArgs

\* Documents of up to MaxColors lines of chosen strokes, chosen powers.
InitColor ==
    \E c \in SeqsUpTo(1..Len(ColorPool), MaxColors), pp \in PowerPairs :
        /\ input_file = SvgInput([size |-> Size100x50,
                                  el |-> SvgRoot([i \in 1..Len(c) |->
                                                     ColorChild(ColorPool[c[i]], i)])])
        /\ argv = Given(<<pp[1]>>, <<pp[2]>>, <<300>>)

\* One line of any stroke text.
InitStroke ==
    \E s \in StrokeStrings, pp \in { <<10, 80>>, <<0, 100>> } :
        /\ input_file = SvgInput([size |-> Size100x50,
                                  el |-> SvgRoot(<< Shape("line", <<s>>, Nums(0, 0, 10, 10)) >>)])
        /\ argv = Given(<<pp[1]>>, <<pp[2]>>, <<300>>)

\* Small documents under every form of the size attributes.
InitSize ==
    \E z \in SizeVariants, c \in SizeChildren :
        /\ input_file = SvgInput([size |-> z, el |-> SvgRoot(c)])
        /\ argv = DefaultArgs

\* Inputs of every kind of file.
InitFile ==
    \E f \in FileInputs, a \in {DefaultArgs, Given(<<>>, <<>>, <<>>)} :
        /\ input_file = f
        /\ argv = a

\* Every combination of the options.
InitOptions ==
    \E d \in {OneLineDoc, NoShapeDoc}, a \in OptionArgs :
        /\ input_file = SvgInput(d)
        /\ argv = a

\* Three nested transforms, each from TransformPool.
InitNest ==
    \E a, b, c \in 1..Len(TransformPool) :
        /\ input_file = SvgInput(NestedDoc(TransformPool[a], TransformPool[b],
                                           TransformPool[c]))
        /\ argv = DefaultArgs

\* Lines on the viewBox rectangle, for several viewBoxes.
InitBox ==
    \E vb \in ViewBoxes :
        /\ input_file = SvgInput(BoxDoc(vb))
        /\ argv = DefaultArgs

\* A polyline and a polygon of the same 0..MaxPoints points.
InitPoly ==
    \E n \in 0..MaxPoints, grouped \in BOOLEAN :
        /\ input_file = SvgInput(PolyDoc(n, grouped))
        /\ argv = DefaultArgs

\* Circles and ellipses of several centres and radii.
InitRound ==
    \E cy \in {10, 25, 40}, r \in {10, 20}, ellipse \in BOOLEAN, grouped \in BOOLEAN :
        /\ input_file = SvgInput(RoundDoc(cy, r, ellipse, grouped))
        /\ argv = DefaultArgs

Init ==
    /\ \/ InitStruct \/ InitColor \/ InitStroke \/ InitSize \/ InitFile \/ InitOptions
       \/ InitNest \/ InitBox \/ InitPoly \/ InitRound
    /\ InitRest

Next ==
    \/ Main_ApplyPresetDefaults
    \/ Main_ConvertSvg
    \/ Main_ConvertOther
    \/ Main_ConvertUnsupported
    \/ Main_CheckSvgInput
    \/ SvgToRd_ParseError
    \/ SvgToRd_Parse
    \/ SvgToRd_ExtractPaths
    \/ SvgToRd_NoPaths
    \/ SvgToRd_SortColors
    \/ SvgToRd_SkipColor
    \/ SvgToRd_AddLayer
    \/ SvgToRd_AddLayerTypeError
    \/ SvgToRd_Write
    \/ Main_Report
    \/ Main_Finally
    \/ Restart

Spec == Init /\ [][Next]_vars

----------------------------------------------------------------------------
(* Helpers for the properties.                                             *)

\* The document that svg_to_rd parsed.
Doc == FileAt(root).doc

RECURSIVE ElemAt(_, _)
\* The element at a position (child indices from the root element).
ElemAt(el, addr) ==
    IF addr = <<>> THEN el ELSE ElemAt(el.children[Head(addr)], Tail(addr))

\* First index at which two positions differ (neither is a prefix of the
\* other: shapes are leaves).
FirstDiff(a, b) ==
    CHOOSE i \in 1..Min(Len(a), Len(b)) :
        a[i] # b[i] /\ \A j \in 1..(i - 1) : a[j] = b[j]

\* a precedes b in a depth-first, document-order traversal
DocBefore(a, b) == a # b /\ a[FirstDiff(a, b)] < b[FirstDiff(a, b)]

KindRank(tag) ==
    CASE tag = "path" -> 1 [] tag = "line" -> 2 [] tag = "rect" -> 3
      [] tag = "circle" -> 4 [] tag = "ellipse" -> 5 [] tag = "polyline" -> 6
      [] tag = "polygon" -> 7 [] OTHER -> 8

\* a precedes b by kind: where their positions part, under the same parent,
\* the child of a is of an earlier kind (path, line, rect, circle, ellipse,
\* polyline, polygon, then g), or of the same kind and earlier in the document
KindBefore(el, a, b) ==
    LET i == FirstDiff(a, b)
        parent == ElemAt(el, SubSeq(a, 1, i - 1))
        ra == KindRank(parent.children[a[i]].tag)
        rb == KindRank(parent.children[b[i]].tag)
    IN  a # b /\ (ra < rb \/ (ra = rb /\ a[i] < b[i]))

----------------------------------------------------------------------------
(* C1 (as stated): under every stroke key the paths are in document order: *)
(* the paths of a shape that comes earlier in a depth-first, document-     *)
(* order traversal come before those of a later shape, whatever the kinds. *)
C1_DocumentOrder ==
    \A e \in 1..Len(paths_by_color) :
        LET ps == paths_by_color[e].paths
        IN  \A i, j \in 1..Len(ps) : i < j => ~DocBefore(ps[j].src, ps[i].src)

(* C1 (amended): under every stroke key the paths are ordered by element   *)
(* kind first: under one parent, shapes come kind by kind (path, line,     *)
(* rect, circle, ellipse, polyline, polygon), in document order within a   *)
(* kind, and all of them before the paths of the child groups, which       *)
(* follow in document order.                                               *)
C1_KindOrder ==
    root # "" =>
        \A e \in 1..Len(paths_by_color) :
            LET ps == paths_by_color[e].paths
            IN  \A i, j \in 1..Len(ps) :
                    i < j => \/ ps[i].src = ps[j].src
                             \/ KindBefore(Doc.el, ps[i].src, ps[j].src)

\* A <line> precedes a <path> of the same key in the document, both children
\* of the root, and the path's paths come first in the list.
C1_Witness ==
    /\ root # ""
    /\ \E e \in 1..Len(paths_by_color) :
          LET ps == paths_by_color[e].paths
          IN  \E i, j \in 1..Len(ps) :
                  /\ i < j
                  /\ Len(ps[i].src) = 1 /\ Len(ps[j].src) = 1
                  /\ ps[j].src[1] < ps[i].src[1]
                  /\ Doc.el.children[ps[i].src[1]].tag = "path"
                  /\ Doc.el.children[ps[j].src[1]].tag = "line"

----------------------------------------------------------------------------
\* Position of a key in the colour map (order of first insertion).
KeyPos(k) == CHOOSE i \in 1..Len(paths_by_color) : paths_by_color[i].key = k

----------------------------------------------------------------------------
Black == <<0, 0, 0>>

----------------------------------------------------------------------------
Clamp(x, lo, hi) == Max(lo, Min(x, hi))

\* clamp(minPower + (1 - y/255)*(maxPower - minPower), minPower, maxPower)
\* for y = yn/yd, times PowerDen * yd
ClampedPower(yn, yd, mn, mx) ==
    Clamp(PowerDen * yd * mn + (PowerDen * yd - yn) * (mx - mn),
          PowerDen * yd * mn, PowerDen * yd * mx)

(* C4 (as stated): the power of every layer is clamp(minPower + (1 -       *)
(* Y/255)*(maxPower - minPower), minPower, maxPower) with the untruncated  *)
(* Y = 0.299R + 0.587G + 0.114B, for every (minPower, maxPower).           *)
C4_PowerFromLuminance ==
    \A i \in 1..Len(rd) :
        rd[i].power[1] * LumaDen
            = ClampedPower(Luma(rd[i].color), LumaDen, args.min_power[1], args.max_power[1])

\* The integers that int(Y) can be: Y truncated toward zero and, when Y is a
\* whole number, also the integer one nearer to zero (the floating-point sum
\* may fall just short of it).
IntOfLuma(rgb) ==
    LET t == Trunc(Luma(rgb), LumaDen)
    IN  {t} \cup (IF Luma(rgb) % LumaDen = 0 /\ t # 0
                  THEN {IF t > 0 THEN t - 1 ELSE t + 1} ELSE {})

(* C4 (amended): for minPower <= maxPower the power of every layer is      *)
(* clamp(minPower + (1 - G/255)*(maxPower - minPower), minPower, maxPower) *)
(* with G = int(Y), Y truncated to an integer as the code computes it; it  *)
(* lies in [minPower, maxPower], and of two layers of one job the one of   *)
(* greater Y never has the greater power.                                  *)
C4_PowerFromGray ==
    args.min_power # <<>> /\ args.max_power # <<>> /\ args.min_power[1] <= args.max_power[1]
    => /\ \A i \in 1..Len(rd) :
            /\ \E g \in IntOfLuma(rd[i].color) :
                  rd[i].power[1] = ClampedPower(g, 1, args.min_power[1], args.max_power[1])
            /\ PowerDen * args.min_power[1] <= rd[i].power[1]
            /\ rd[i].power[1] <= PowerDen * args.max_power[1]
       /\ \A i, j \in 1..Len(rd) :
            Luma(rd[i].color) <= Luma(rd[j].color) => rd[i].power[1] >= rd[j].power[1]

\* A layer whose Y is not a whole number, under minPower < maxPower, with a
\* power strictly between the two.
C4_Witness ==
    /\ args.min_power # <<>> /\ args.max_power # <<>>
    /\ args.min_power[1] < args.max_power[1]
    /\ \E i \in 1..Len(rd) :
          /\ Luma(rd[i].color) % LumaDen # 0
          /\ PowerDen * args.min_power[1] < rd[i].power[1]
          /\ rd[i].power[1] < PowerDen * args.max_power[1]

----------------------------------------------------------------------------
(* C5: a second run on the same document with the same minPower and        *)
(* maxPower and another speed gives the same layers in number, order,      *)
(* colour, paths and power; every layer of a run has that run's speed.     *)
C5_SpeedOnlyChangesSpeed ==
    run = 2 /\ pc = "exit" =>
        /\ Len(rd) = Len(prev.rd)
        /\ \A i \in 1..Len(rd) :
              /\ rd[i].key = prev.rd[i].key
              /\ rd[i].color = prev.rd[i].color
              /\ rd[i].paths = prev.rd[i].paths
              /\ rd[i].power = prev.rd[i].power
              /\ rd[i].speed = args.speed
              /\ prev.rd[i].speed = prev.args[1].speed

\* The second run ended with two layers or more, its speed other than the
\* first run's.
C5_Witness ==
    /\ run = 2 /\ pc = "exit"
    /\ Len(rd) >= 2
    /\ args.speed # prev.args[1].speed
    /\ args.min_power = prev.args[1].min_power
    /\ args.max_power = prev.args[1].max_power

----------------------------------------------------------------------------
ShapeKinds == {"path", "line", "rect", "circle", "ellipse", "polyline", "polygon"}

RECURSIVE NoShapes(_)
\* The element has no shape element below it.
NoShapes(el) ==
    \A i \in 1..Len(el.children) :
        el.children[i].tag \notin ShapeKinds /\ NoShapes(el.children[i])

\* The root carries a size the code can use: a viewBox of four numbers, or no
\* viewBox and a numeric width and height; and max(w, h) is not zero.
SizeUsable(size) ==
    IF size.viewBox # <<>>
    THEN LET vb == size.viewBox[1]
         IN  /\ Len(vb) = 4
             /\ \A i \in 1..4 : vb[i].num
             /\ Max(vb[3].v, vb[4].v) # 0
    ELSE /\ size.width.k = "num" /\ size.height.k = "num"
         /\ Max(size.width.v, size.height.v) # 0

\* The document has shapes, and all of them flatten to zero paths.
ZeroPathShapes ==
    LET r == extract_paths(Doc)
    IN  /\ ~NoShapes(Doc.el)
        /\ r.exc = ""
        /\ \A e \in 1..Len(r.paths) : r.paths[e].paths = <<>>

\* svg_to_rd was called on a well-formed document and main has ended
Converted == pc = "exit" /\ root # ""

(* C6: for a well-formed document without shape elements, with or without  *)
(* size attributes or empty groups, the conversion does not raise, has     *)
(* zero layers and writes its (empty) job; a document whose shapes all     *)
(* flatten to zero paths ends with the same output as a document without   *)
(* shapes.                                                                 *)
C6_EmptyDocumentEmptyJob ==
    Converted =>
        /\ NoShapes(Doc.el) => exc = "" /\ rd = <<>> /\ rd_file = "empty"
        /\ ZeroPathShapes => exc = "" /\ rd = <<>> /\ rd_file = "empty"

----------------------------------------------------------------------------
\* #rgb or #rrggbb, in either case
IsHashHex(s) ==
    /\ Len(s) \in {4, 7}
    /\ s[1] = "#"
    /\ \A i \in 2..Len(s) : IsHexDigit(LowerChar(s[i]))

\* The stroke value is a colour name or a hex colour (surrounding blanks and
\* case aside).
Recognised(s) == InColorNames(Strip(Lower(s))) \/ IsHashHex(Strip(s))

(* C7 (as stated): hex_to_rgb raises for no stroke value, and a value that *)
(* is neither a recognised colour name nor of the form #rgb or #rrggbb     *)
(* resolves to (255,255,255), tokens without a leading '#' included.       *)
C7_UnrecognisedIsWhite ==
    /\ \A e \in 1..Len(paths_by_color) : hex_to_rgb(paths_by_color[e].key).exc = ""
    /\ \A i \in 1..Len(rd) : ~Recognised(rd[i].key) => rd[i].color = White

\* int(p, 16) accepts the two characters p: two hex digits, or one hex digit
\* with a sign or a blank before it, or a blank after it.
PairAccepted(p) ==
    \/ IsHexDigit(p[1]) /\ IsHexDigit(p[2])
    \/ p[1] \in {"+", "-", " "} /\ IsHexDigit(p[2])
    \/ IsHexDigit(p[1]) /\ p[2] = " "

\* What is left of the value when it is lowered, stripped, replaced by its
\* hex form if it is a colour name, and rid of its leading '#'s, is three
\* characters, or six that make three accepted pairs.
ReadAsHex(s) ==
    LET t  == Strip(Lower(s))
        h0 == IF InColorNames(t) THEN COLOR_NAME_TO_HEX(t) ELSE t
        h1 == LStripSet(h0, {"#"})
        h  == IF Len(h1) = 3 THEN <<h1[1], h1[1], h1[2], h1[2], h1[3], h1[3]>> ELSE h1
    IN  /\ Len(h) = 6
        /\ \A i \in {1, 3, 5} : PairAccepted(<<h[i], h[i + 1]>>)

(* C7 (amended): hex_to_rgb raises for no stroke value, and a value        *)
(* resolves to (255,255,255) unless, lowered, stripped, replaced by its    *)
(* hex form if it is a colour name and rid of its leading '#' characters,  *)
(* it has three characters, or six, that make three pairs which            *)
(* int(pair, 16) accepts; such a value is read as a hex colour with or     *)
(* without '#'.                                                            *)
C7_UnreadableIsWhite ==
    /\ \A e \in 1..Len(paths_by_color) : hex_to_rgb(paths_by_color[e].key).exc = ""
    /\ \A i \in 1..Len(rd) : ~ReadAsHex(rd[i].key) => rd[i].color = White

\* A layer of stroke "not-a-color" was added, white.
C7_Witness ==
    \E i \in 1..Len(rd) : rd[i].key = S_notacolor /\ rd[i].color = White

----------------------------------------------------------------------------
\* The root has no viewBox and lacks width or height.
SizeMissing(size) ==
    size.viewBox = <<>> /\ (size.width.k = "absent" \/ size.height.k = "absent")

(* C8 (as stated): when the root has no viewBox and lacks width or height  *)
(* extract_paths does not fail: the conversion goes on with a default      *)
(* canvas and ends without an exception, its output written.               *)
C8_DefaultCanvas ==
    Converted /\ SizeMissing(Doc.size) => exc = "" /\ rd_file # "absent"

(* C8 (amended): when the root has no viewBox and lacks width or height    *)
(* extract_paths raises ValueError: no layer is made, no output is         *)
(* written and main does not report 'Successfully created'.                *)
C8_MissingSizeRaises ==
    Converted /\ SizeMissing(Doc.size) =>
        /\ exc = "ValueError"
        /\ rd = <<>>
        /\ run = 1 => rd_file = "absent"
        /\ run = 2 => rd_file = prev.rd_file
        /\ "Successfully created" \notin stdout

\* A document with a shape and no size attribute at all has ended in
\* ValueError.
C8_Witness ==
    /\ Converted
    /\ Doc.size.viewBox = <<>>
    /\ Doc.size.width.k = "absent" /\ Doc.size.height.k = "absent"
    /\ ~NoShapes(Doc.el)
    /\ exc = "ValueError"

----------------------------------------------------------------------------
(* C9: in a well-formed document with valid size information a malformed   *)
(* shape never aborts the run: no ValueError escapes the conversion.       *)
C9_MalformedShapeNeverAborts ==
    Converted /\ SizeUsable(Doc.size) => exc # "ValueError"

----------------------------------------------------------------------------
(* C10: when the input is not well-formed, main never reports              *)
(* 'Successfully created' for it and no output is written.                 *)
C10_ParseFailureSurfaced ==
    "Error parsing SVG file" \in stdout =>
        /\ "Successfully created" \notin stdout
        /\ rd_file = IF run = 1 THEN "absent" ELSE prev.rd_file

----------------------------------------------------------------------------
\* extract_paths has returned the colour map of the document
Extracted == root # "" /\ pc \notin {"extract", "parse"} /\ exc = ""

\* The document size as extract_paths reads it.
DocFit ==
    LET sz == DocumentSize(Doc.size)
    IN  [m |-> Max(sz.w, sz.h), w |-> sz.w, h |-> sz.h]

\* The transform attribute of an element, parsed.
LocalTransform(el) ==
    LET l == parse_transform(el.transform)
    IN  [sx |-> l.sx, sy |-> l.sy, tx |-> l.tx, ty |-> l.ty]

\* The parsed transform attributes of the ancestors of the shape at a
\* position, from the root element down.
AncestorTransforms(addr) ==
    [k \in 1..Len(addr) |-> LocalTransform(ElemAt(Doc.el, SubSeq(addr, 1, k - 1)))]

RECURSIVE ComposeLeft(_, _)
\* compose(compose(compose(acc, t1), t2), ...)
ComposeLeft(acc, ts) ==
    IF ts = <<>> THEN acc ELSE ComposeLeft(Compose(acc, Head(ts)), Tail(ts))

RECURSIVE ComposeRight(_)
\* compose(t1, compose(t2, compose(..., identity)))
ComposeRight(ts) ==
    IF ts = <<>> THEN Identity ELSE Compose(Head(ts), ComposeRight(Tail(ts)))

\* All paths of the colour map, whatever their key.
AllPaths ==
    UNION { { paths_by_color[e].paths[i] : i \in 1..Len(paths_by_color[e].paths) } :
            e \in 1..Len(paths_by_color) }

(* C11: the composition of the walker is associative: for the transforms   *)
(* A, B, C of three nested elements compose(compose(A,B),C) equals         *)
(* compose(A,compose(B,C)), and every path of the colour map is the one    *)
(* its shape gives under the composition of its ancestors' transforms      *)
(* grouped from the innermost outwards instead of from the root down.      *)
C11_ComposeAssociative ==
    Extracted =>
        \A p \in AllPaths :
            LET ts == AncestorTransforms(p.src)
                el == ElemAt(Doc.el, p.src)
                sh == ShapePaths(el, ComposeRight(ts), DocFit, p.src)
            IN  /\ Len(ts) = 3 =>
                      Compose(Compose(ts[1], ts[2]), ts[3])
                          = Compose(ts[1], Compose(ts[2], ts[3]))
                /\ ComposeLeft(Identity, ts) = ComposeRight(ts)
                /\ \E i \in 1..Len(sh.paths) : sh.paths[i] = p

\* A path of a shape under three nested transforms, each of which scales and
\* translates.
C11_Witness ==
    /\ Extracted
    /\ \E p \in AllPaths :
          LET ts == AncestorTransforms(p.src)
          IN  /\ Len(ts) = 3
              /\ \A k \in 1..3 : ts[k].sx # 1 /\ ts[k].tx # 0 /\ ts[k].ty # 0

----------------------------------------------------------------------------
RECURSIVE Elems(_)
\* An element and everything below it.
Elems(el) == {el} \cup UNION { Elems(el.children[i]) : i \in 1..Len(el.children) }

\* The transform attribute is absent or empty, or none of its calls is a
\* scale, translate or matrix of numbers.
Unparsable(t) ==
    \A i \in 1..Len(t) :
        \/ t[i].fn \notin {"scale", "translate", "matrix"}
        \/ \E j \in 1..Len(t[i].args) : ~t[i].args[j].num

(* C12: for every absent, empty or unparsable transform attribute of the   *)
(* document (arguments that are not numbers, or only unsupported forms     *)
(* such as rotate) parse_transform returns the identity (1,1,0,0) and does *)
(* not raise.                                                              *)
C12_UnparsableIsIdentity ==
    root # "" =>
        \A el \in Elems(Doc.el) :
            el.tag \in {"svg", "g"} /\ Unparsable(el.transform)
                => parse_transform(el.transform) = [exc |-> ""] @@ Identity

----------------------------------------------------------------------------
\* The paths of the colour map that come from the shape at a position.
PathsFrom(addr) == { p \in AllPaths : p.src = addr }

\* The positions of the elements of a tag below an element at a position.
RECURSIVE AddrsOf(_, _, _)
AddrsOf(el, addr, tags) ==
    UNION { (IF el.children[i].tag \in tags THEN {Append(addr, i)} ELSE {})
                \cup (IF el.children[i].tag = "g"
                      THEN AddrsOf(el.children[i], Append(addr, i), tags) ELSE {}) :
            i \in 1..Len(el.children) }

\* The four numeric attributes of the element are all numbers.
AllNum(el) == \A i \in 1..Len(el.a) : el.a[i].k = "num"

\* (x, y) in user units, under the transform t: (x*sx + tx, y*sy + ty)
Transformed(x, y, t) == <<x * t.sx + t.tx, y * t.sy + t.ty>>

\* The machine point <<nx, ny>>, in units of 1/(2*m*LocalDen), that is
\* (x*scale + offsetX, (h - y)*scale + offsetY) for scale = 50/m,
\* offsetX = (50 - w*scale)/2 and offsetY = (50 - h*scale)/2; both sides
\* are multiplied by 2*m*LocalDen.
BedImage(xy, fit) ==
    << LocalDen * (2 * 50 * xy[1] + (50 * fit.m - 50 * fit.w)),
       LocalDen * (2 * 50 * (fit.h - xy[2]) + (50 * fit.m - 50 * fit.h)) >>

IsBedImage(pt, xy, fit) == pt = BedImage(xy, fit)

(* C13: with the size (w, h) taken from the viewBox, max(w,h) > 0, every   *)
(* transformed point (x, y) is mapped to (x*scale + offsetX,               *)
(* (h - y)*scale + offsetY) with scale = 50/max(w,h), offsetX =            *)
(* (50 - w*scale)/2, offsetY = (50 - h*scale)/2 (checked on the end points *)
(* of every <line>); under viewBox "0 0 100 50" (scale 0.5, offsetX 0,     *)
(* offsetY 12.5) the untransformed point (0, 0) goes to (0, 37.5) and      *)
(* (10, 10) to (5, 32.5).                                                  *)
C13_BedMapping ==
    Extracted /\ Doc.size.viewBox # <<>> /\ DocFit.m > 0 =>
        \A a \in AddrsOf(Doc.el, <<>>, {"line"}) :
            LET el == ElemAt(Doc.el, a)
                t == ComposeLeft(Identity, AncestorTransforms(a))
            IN  AllNum(el) =>
                  /\ \E p \in PathsFrom(a) :
                        /\ Len(p.pts) = 2
                        /\ IsBedImage(p.pts[1], Transformed(el.a[1].v, el.a[2].v, t), DocFit)
                        /\ IsBedImage(p.pts[2], Transformed(el.a[3].v, el.a[4].v, t), DocFit)
                  /\ Doc.size = Size100x50 /\ t = Identity /\ el = PlainLine =>
                        \E p \in PathsFrom(a) :
                            /\ p.pts[1][1] = 0
                            /\ 10 * p.pts[1][2] = 375 * (2 * 100 * LocalDen)
                            /\ p.pts[2][1] = 5 * (2 * 100 * LocalDen)
                            /\ 10 * p.pts[2][2] = 325 * (2 * 100 * LocalDen)

\* Under viewBox "0 0 50 100" (scale 0.5, offsetX 12.5) a line was mapped.
C13_Witness ==
    /\ Extracted
    /\ Doc.size.viewBox # <<>> /\ DocFit.w = 50 /\ DocFit.h = 100
    /\ \E a \in AddrsOf(Doc.el, <<>>, {"line"}) :
          AllNum(ElemAt(Doc.el, a)) /\ PathsFrom(a) # {}

----------------------------------------------------------------------------
\* The viewBox is four numbers "minx miny w h" with w, h > 0.
ViewBoxValid(size) ==
    /\ size.viewBox # <<>>
    /\ Len(size.viewBox[1]) = 4
    /\ \A i \in 1..4 : size.viewBox[1][i].num
    /\ size.viewBox[1][3].v > 0 /\ size.viewBox[1][4].v > 0

\* (x, y) lies in the viewBox rectangle.
InViewBox(xy, size) ==
    LET vb == size.viewBox[1]
    IN  /\ vb[1].v <= xy[1] /\ xy[1] <= vb[1].v + vb[3].v
        /\ vb[2].v <= xy[2] /\ xy[2] <= vb[2].v + vb[4].v

\* The machine point, in units of 1/MachineDen, lies on the 50 x 50 bed.
OnBed(pt, fit) ==
    /\ 0 <= pt[1] /\ pt[1] <= 50 * MachineDen(fit)
    /\ 0 <= pt[2] /\ pt[2] <= 50 * MachineDen(fit)

(* C14: for every viewBox "minx miny w h", minx and miny zero or not, a    *)
(* point that lies inside the viewBox rectangle once its element           *)
(* transforms are applied is mapped to machine coordinates with            *)
(* 0 <= x <= 50 and 0 <= y <= 50 (checked on the end points of every       *)
(* <line>).                                                                *)
C14_FitsBed ==
    Extracted /\ ViewBoxValid(Doc.size) =>
        \A a \in AddrsOf(Doc.el, <<>>, {"line"}) :
            LET el == ElemAt(Doc.el, a)
                t == ComposeLeft(Identity, AncestorTransforms(a))
                ends == << Transformed(el.a[1].v, el.a[2].v, t),
                           Transformed(el.a[3].v, el.a[4].v, t) >>
            IN  AllNum(el) =>
                    \A p \in PathsFrom(a) : \A k \in 1..2 :
                        InViewBox(ends[k], Doc.size) => OnBed(p.pts[k], DocFit)

----------------------------------------------------------------------------
\* The point lists of the paths that the shape at a position has under its
\* stroke key, in the order of the list.
PtsFrom(addr) ==
    LET k == StrokeKey(ElemAt(Doc.el, addr))
        ps == IF DictHas(paths_by_color, k) THEN DictGet(paths_by_color, k) ELSE <<>>
        sel == SelectSeq(ps, LAMBDA p : p.src = addr)
    IN  [i \in 1..Len(sel) |-> sel[i].pts]

\* The "x,y" tokens of a points attribute, in order.
PairsOf(pts) == SelectSeq(pts, LAMBDA tok : tok.k = "pair")

\* The machine points of the n parsed points of the element at a position.
MappedPairs(addr) ==
    LET prs == PairsOf(ElemAt(Doc.el, addr).pts)
        t == ComposeLeft(Identity, AncestorTransforms(addr))
    IN  [i \in 1..Len(prs) |-> BedImage(Transformed(prs[i].x, prs[i].y, t), DocFit)]

\* A <polyline> and a <polygon> under the same parent, with the same points.
Twins(a, b) ==
    /\ ElemAt(Doc.el, a).tag = "polyline" /\ ElemAt(Doc.el, b).tag = "polygon"
    /\ SubSeq(a, 1, Len(a) - 1) = SubSeq(b, 1, Len(b) - 1)
    /\ ElemAt(Doc.el, a).pts = ElemAt(Doc.el, b).pts

(* C15 (as stated): for the same n parsed points a <polyline> yields one   *)
(* open path of exactly those points, and a <polygon> yields that path     *)
(* with the first point appended again if n >= 3 and the same path as the  *)
(* polyline if n < 3.                                                      *)
C15_PolygonClosesPolyline ==
    Extracted =>
        \A a, b \in AddrsOf(Doc.el, <<>>, {"polyline", "polygon"}) :
            Twins(a, b) =>
                LET n == Len(MappedPairs(a))
                IN  /\ n >= 1 => PtsFrom(a) = << MappedPairs(a) >>
                    /\ n >= 3 => PtsFrom(b) = << Append(MappedPairs(a), MappedPairs(a)[1]) >>
                    /\ n < 3 => PtsFrom(b) = PtsFrom(a)

(* C15 (amended): for the same n parsed points a <polyline> yields one     *)
(* open path of exactly those points (no path when n = 0), and a <polygon> *)
(* yields that path with the first point appended again if n >= 3 and no   *)
(* path at all if n < 3.                                                   *)
C15_PolygonClosesOrDrops ==
    Extracted =>
        \A a, b \in AddrsOf(Doc.el, <<>>, {"polyline", "polygon"}) :
            Twins(a, b) =>
                LET n == Len(MappedPairs(a))
                IN  /\ n >= 1 => PtsFrom(a) = << MappedPairs(a) >>
                    /\ n = 0 => PtsFrom(a) = <<>>
                    /\ n >= 3 => PtsFrom(b) = << Append(MappedPairs(a), MappedPairs(a)[1]) >>
                    /\ n < 3 => PtsFrom(b) = <<>>

\* A polyline and a polygon of the same two points: the polyline has its
\* path, the polygon none.
C15_Witness ==
    /\ Extracted
    /\ \E a, b \in AddrsOf(Doc.el, <<>>, {"polyline", "polygon"}) :
          /\ Twins(a, b)
          /\ Len(MappedPairs(a)) = 2
          /\ Len(PtsFrom(a)) = 1 /\ PtsFrom(b) = <<>>

----------------------------------------------------------------------------
\* The corners of a <rect> in user units: (x,y), (x+w,y), (x+w,y+h), (x,y+h)
Corners(el) ==
    LET x == el.a[1].v
        y == el.a[2].v
        w == el.a[3].v
        h == el.a[4].v
    IN  << <<x, y>>, <<x + w, y>>, <<x + w, y + h>>, <<x, y + h>> >>

(* C16: every closed primitive is emitted as exactly one path whose last   *)
(* point equals its first: a <rect> gives the four corners (x,y),          *)
(* (x+w,y), (x+w,y+h), (x,y+h) in this order and the first again, a        *)
(* <circle> or <ellipse> gives 37 points, under every transform and bed    *)
(* mapping.                                                                *)
C16_ClosedPrimitives ==
    Extracted =>
        \A a \in AddrsOf(Doc.el, <<>>, {"rect", "circle", "ellipse"}) :
            LET el == ElemAt(Doc.el, a)
                t == ComposeLeft(Identity, AncestorTransforms(a))
                ps == PtsFrom(a)
            IN  AllNum(el) =>
                    /\ Len(ps) = 1
                    /\ ps[1][Len(ps[1])] = ps[1][1]
                    /\ el.tag = "rect" =>
                          /\ Len(ps[1]) = 5
                          /\ \A k \in 1..4 :
                                ps[1][k] = BedImage(Transformed(Corners(el)[k][1],
                                                                Corners(el)[k][2], t), DocFit)
                    /\ el.tag \in {"circle", "ellipse"} => Len(ps[1]) = 37

----------------------------------------------------------------------------
(* C17: every path of the colour map returned by extract_paths, and so     *)
(* every path of a layer handed to the encoder, has at least 2 points.     *)
C17_PathsHaveTwoPoints ==
    /\ \A p \in AllPaths : Len(p.pts) >= 2
    /\ \A i \in 1..Len(rd) : \A j \in 1..Len(rd[i].paths) : Len(rd[i].paths[j].pts) >= 2

----------------------------------------------------------------------------
\* The paths that the shape at a position has under a key, in list order.
PathsUnder(k, addr) ==
    IF DictHas(paths_by_color, k)
    THEN SelectSeq(DictGet(paths_by_color, k), LAMBDA p : p.src = addr)
    ELSE <<>>

(* C18: for every shape at any depth, the paths it has in the colour map   *)
(* of the document are those it gives under the composition, parent before *)
(* local, of the transform attributes of its ancestors from the root down; *)
(* they are all there, under its own stroke key ("#000000" without a       *)
(* stroke attribute) and under no other key, and the map holds no other    *)
(* path.                                                                   *)
C18_NestedShapes ==
    Extracted =>
        /\ \A a \in AddrsOf(Doc.el, <<>>, ShapeKinds) :
              LET el == ElemAt(Doc.el, a)
                  t == ComposeLeft(Identity, AncestorTransforms(a))
                  own == IF el.stroke = <<>> THEN <<"#","0","0","0","0","0","0">>
                         ELSE el.stroke[1]
              IN  /\ PathsUnder(own, a) = ShapePaths(el, t, DocFit, a).paths
                  /\ \A e \in 1..Len(paths_by_color) :
                        paths_by_color[e].key # own
                            => PathsUnder(paths_by_color[e].key, a) = <<>>
        /\ \A p \in AllPaths : p.src \in AddrsOf(Doc.el, <<>>, ShapeKinds)

\* A shape three levels down, under transforms that are not the identity,
\* has its paths under a key that a shape of an outer group has paths under
\* too.
C18_Witness ==
    /\ Extracted
    /\ \E a, b \in AddrsOf(Doc.el, <<>>, ShapeKinds) :
          /\ Len(a) = 3 /\ Len(b) < 3
          /\ StrokeKey(ElemAt(Doc.el, a)) = StrokeKey(ElemAt(Doc.el, b))
          /\ PathsFrom(a) # {} /\ PathsFrom(b) # {}
          /\ \A k \in 1..3 : AncestorTransforms(a)[k] # Identity

----------------------------------------------------------------------------
\* A triple of integers in 0..255.
IsRgb8(rgb) == Len(rgb) = 3 /\ \A i \in 1..3 : rgb[i] \in 0..255

(* C19: every colour that hex_to_rgb resolves a stroke key to, and so the  *)
(* colour of every layer, is a triple of integers in 0..255.               *)
C19_ColourInRange ==
    /\ \A e \in 1..Len(paths_by_color) : IsRgb8(hex_to_rgb(paths_by_color[e].key).rgb)
    /\ \A i \in 1..Len(rd) : IsRgb8(rd[i].color)

----------------------------------------------------------------------------
(* C20: whatever options were given, when main calls svg2rd.svg_to_rd the  *)
(* configuration is resolved: min_power, max_power and speed are numbers,  *)
(* none is None, and an option that was given has the given value.         *)
C20_ConfigResolved ==
    pc = "parse" =>
        /\ args.min_power # <<>> /\ args.max_power # <<>> /\ args.speed # <<>>
        /\ argv.min_power # <<>> => args.min_power = argv.min_power
        /\ argv.max_power # <<>> => args.max_power = argv.max_power
        /\ argv.speed # <<>> => args.speed = argv.speed

----------------------------------------------------------------------------
(* C21: when main() has finished, normally or by an error raised during    *)
(* the SVG-to-RD conversion, the "<input>_temp.svg" file of a DXF, PDF or  *)
(* image input no longer exists; the file of an .svg input is never        *)
(* deleted.                                                                *)
C21_TempFileCleanedUp ==
    /\ [](pc = "exit" /\ input_file.ext \in ConvertedExts => ~temp_file.exists)
    /\ [][input_file.ext \in SvgExts => input_file'.file = input_file.file]_vars

============================================================================
